---- MODULE Spec2Model ----
(***************************************************************************)
(* QATest API (src/app.py): an in-memory users collection served by five   *)
(* Flask handlers (reset, list, create, get, delete).                      *)
(*                                                                         *)
(* A Python str is a sequence of one-character strings, so that strip(),   *)
(* len() and int() are computed and not assumed.  A JSON value is a tagged *)
(* record (None, Str, Num); a JSON object is a record whose DOMAIN is the  *)
(* set of fields it carries.  A response is the pair returned by the       *)
(* handler: the HTTP status code and the JSON body.                        *)
(***************************************************************************)
EXTENDS Integers, Sequences, FiniteSets, TLC

VARIABLES users_db, request, response, deletedAfterCreate, resetter, reader

vars == <<users_db, request, response, deletedAfterCreate, resetter, reader>>

\* the requests in progress when handlers run interleaved: a reset and a read
threads == <<resetter, reader>>

\* ------------------------------------------------------------------ bounds

\* create is not taken once the collection holds MaxCreated users that are
\* not seed users
MaxCreated == 2

\* ------------------------------------------------------------ Python values

None == [t |-> "null"]
Str(s) == [t |-> "str", s |-> s]
Num(n) == [t |-> "int", n |-> n]

IsStr(v) == v.t = "str"

\* Python truthiness of a JSON value (None, "" and 0 are falsy)
Truthy(v) ==
    CASE v.t = "null" -> FALSE
      [] v.t = "str" -> v.s # <<>>
      [] v.t = "int" -> v.n # 0

Whitespace == {" ", "\t", "\n", "\r", "\f"}

DigitChars == <<"0", "1", "2", "3", "4", "5", "6", "7", "8", "9">>

IsDigit(c) == \E k \in 1..10 : DigitChars[k] = c

DigitValue(c) == (CHOOSE k \in 1..10 : DigitChars[k] = c) - 1

RECURSIVE LStrip(_)
LStrip(s) ==
    IF s # <<>> /\ Head(s) \in Whitespace THEN LStrip(Tail(s)) ELSE s

RECURSIVE RStrip(_)
RStrip(s) ==
    IF s # <<>> /\ s[Len(s)] \in Whitespace
    THEN RStrip(SubSeq(s, 1, Len(s) - 1))
    ELSE s

\* str.strip()
Strip(s) == RStrip(LStrip(s))

\* the text of a str, for f-strings and messages
RECURSIVE Text(_)
Text(s) == IF s = <<>> THEN "" ELSE Head(s) \o Text(Tail(s))

\* n copies of the character c
Rep(c, n) == [k \in 1..n |-> c]

\* ---------------------------------------------------------------- the seed

MAX_NAME_LENGTH == 30
MSISDN_LENGTH == 11

User(id, name, msisdn) == [id |-> id, name |-> name, msisdn |-> msisdn]

SeedPrefix == <<"7", "9", "1", "6", "1", "2", "3", "4", "0">>

INITIAL_USERS ==
    << User(1, Str(<<"D","a","v","i","d"," ","B","u","s","h">>),
               SeedPrefix \o <<"0", "1">>),
       User(2, Str(<<"M","i","k","k","a"," ","H","e","e","p">>),
               SeedPrefix \o <<"0", "2">>),
       User(3, Str(<<"H","a","n","n","a","h"," ","O","b","e","r","t","y">>),
               SeedPrefix \o <<"0", "3">>),
       User(4, Str(<<"P","e","t","u","l","a"," ","J","a","c","k","s","o","n">>),
               SeedPrefix \o <<"0", "4">>),
       User(5, Str(<<"C","l","a","r","k"," ","P","e","t","e","r","s","o","n">>),
               SeedPrefix \o <<"0", "5">>),
       User(6, Str(<<"B","e","t","t","y"," ","W","i","l","l","i","a","m","s","o","n">>),
               SeedPrefix \o <<"0", "6">>),
       User(7, Str(<<"J","o","h","n"," ","D","o","e">>),
               SeedPrefix \o <<"0", "7">>),
       User(8, Str(<<"J","o","h","n"," ","\"","F","i","r","e","m","a","n","\""," ","S","m","i","t","h">>),
               SeedPrefix \o <<"0", "8">>),
       User(9, Str(<<"H","a","r","r","i","s","o","n"," ","F","o","r","d">>),
               SeedPrefix \o <<"0", "9">>),
       User(10, Str(<<"B","o","b"," ","D","o","w","s","o","n">>),
               SeedPrefix \o <<"1", "0">>) >>

\* ---------------------------------------------------------------- responses

success_response(data) ==
    [code |-> 200,
     body |-> IF data = None THEN [status |-> "OK"]
              ELSE [status |-> "OK", result |-> data.v]]

\* success_response(x) for a payload x that is not None
Payload(x) == [t |-> "data", v |-> x]

error_response(description) ==
    [code |-> 200, body |-> [status |-> "error", description |-> description]]

\* --------------------------------------------------------------- validation

\* validate_name: (True, None), (True, stripped name) or (False, message)
validate_name(name) ==
    IF name = None THEN [ok |-> TRUE, value |-> None]
    ELSE IF ~IsStr(name) THEN [ok |-> FALSE, value |-> "Name must be a string"]
    ELSE LET stripped == Strip(name.s) IN
         IF stripped # <<>> /\ Len(stripped) >= MAX_NAME_LENGTH
         THEN [ok |-> FALSE,
               value |-> "Name must not exceed " \o ToString(MAX_NAME_LENGTH)
                         \o " characters"]
         ELSE [ok |-> TRUE,
               value |-> IF stripped # <<>> THEN Str(stripped) ELSE None]

\* validate_msisdn: (True, stripped msisdn) or (False, message); the source
\* makes no check of the characters
validate_msisdn(msisdn) ==
    IF ~Truthy(msisdn) \/ ~IsStr(msisdn)
    THEN [ok |-> FALSE, value |-> "MSISDN is required and must be a string"]
    ELSE LET stripped == Strip(msisdn.s) IN
         IF Len(stripped) # MSISDN_LENGTH
         THEN [ok |-> FALSE,
               value |-> "MSISDN must be exactly " \o ToString(MSISDN_LENGTH)
                         \o " digits"]
         ELSE [ok |-> TRUE, value |-> stripped]

\* ------------------------------------------------------------------ int(str)

IntBody(t) == IF t # <<>> /\ Head(t) \in {"+", "-"} THEN Tail(t) ELSE t

\* digits, with single underscores allowed between two digits
ValidDigits(b) ==
    /\ b # <<>>
    /\ \A k \in 1..Len(b) :
          \/ IsDigit(b[k])
          \/ /\ b[k] = "_"
             /\ 1 < k /\ k < Len(b)
             /\ IsDigit(b[k - 1]) /\ IsDigit(b[k + 1])

RECURSIVE DigitsValue(_, _)
DigitsValue(b, acc) ==
    IF b = <<>> THEN acc
    ELSE IF Head(b) = "_" THEN DigitsValue(Tail(b), acc)
    ELSE DigitsValue(Tail(b), 10 * acc + DigitValue(Head(b)))

\* int(s) returns for s
CanParseInt(s) == ValidDigits(IntBody(Strip(s)))

\* the value of int(s) when it returns
IntOf(s) ==
    LET t == Strip(s)
        v == DigitsValue(IntBody(t), 0)
    IN  IF Head(t) = "-" THEN 0 - v ELSE v

\* str(e) of the ValueError int(s) raises otherwise
IntError(s) == "invalid literal for int() with base 10: '" \o Text(s) \o "'"

\* ------------------------------------------------------------ list helpers

Min(a, b) == IF a < b THEN a ELSE b
Max(a, b) == IF a < b THEN b ELSE a

\* a slice bound as Python clamps it for a sequence of length n
SliceIndex(i, n) == IF i < 0 THEN Max(n + i, 0) ELSE Min(i, n)

\* s[start:stop]
Slice(s, start, stop) ==
    SubSeq(s, SliceIndex(start, Len(s)) + 1, SliceIndex(stop, Len(s)))

\* s[start:]
SliceFrom(s, start) == SubSeq(s, SliceIndex(start, Len(s)) + 1, Len(s))

\* u placed after the elements of the sorted sequence s whose id is <= its own
InsertById(u, s) ==
    LET k == Cardinality({i \in 1..Len(s) : s[i].id <= u.id})
    IN  SubSeq(s, 1, k) \o <<u>> \o SubSeq(s, k + 1, Len(s))

\* sorted(users_db, key=lambda x: x['id']): a stable sort
RECURSIVE sorted_users(_)
sorted_users(db) ==
    IF db = <<>> THEN <<>>
    ELSE InsertById(db[Len(db)], sorted_users(SubSeq(db, 1, Len(db) - 1)))

\* -------------------------------------------------------------------- state

NoRequest == [op |-> "start"]
NoResponse == [code |-> 0, body |-> [status |-> "none"]]

\* no reset in progress: `new` is the list the comprehension of line 140 has
\* built so far, `before` the collection when the reset began
ResetterIdle == [pc |-> "idle", new |-> <<>>, before |-> <<>>, response |-> NoResponse]

\* no read in progress: `seen` is the list the handler loaded from the global
\* users_db; `copied` and `allowed` record the moment of that load: how many
\* users the reset in progress had copied (-1: no reset in progress) and the
\* complete collections of that moment, before and after that reset
ReaderIdle == [pc |-> "idle", seen |-> <<>>, copied |-> -1, allowed |-> {}]

\* the module is imported with an empty collection (line 27) or run as a
\* script, which seeds it before serving (line 262)
Init ==
    /\ users_db \in {<<>>, INITIAL_USERS}
    /\ request = NoRequest
    /\ response = NoResponse
    /\ deletedAfterCreate = 0
    /\ resetter = ResetterIdle
    /\ reader = ReaderIdle

\* ---------------------------------------------------------------- POST /reset

\* a reset that fills the collection only when it is empty
SeedWhenEmpty == IF users_db = <<>> THEN INITIAL_USERS ELSE users_db

\* [user.copy() for user in INITIAL_USERS]
SeedCopy == [k \in 1..Len(INITIAL_USERS) |-> INITIAL_USERS[k]]

Reset ==
    /\ users_db' = SeedCopy
    /\ request' = [op |-> "reset"]
    /\ response' = success_response(None)
    /\ deletedAfterCreate' = 0
    /\ UNCHANGED threads

\* ----------------------------------------------------------------- GET /users

\* a handler that does not test the offset
offset_never_rejected(offset) == FALSE

\* the guard of line 98
offset_rejected(offset) == offset < 0

\* the guard of line 105
count_rejected(count) == count < 0

\* a page that ends at position count, not at offset + count
PageEndingAtCount(sorted, offset, count) ==
    IF count # None
    THEN IF count.n = 0
         THEN Slice(sorted, 0, 1)
         ELSE Slice(sorted, offset, count.n)
    ELSE SliceFrom(sorted, offset)

\* lines 116-124: count is None (no count parameter) or Num(n)
Page(sorted, offset, count) ==
    IF count # None
    THEN IF count.n = 0
         THEN Slice(sorted, 0, 1)
         ELSE Slice(sorted, offset, offset + count.n)
    ELSE SliceFrom(sorted, offset)

\* the response of the except branch of get_users
server_error(description) ==
    [code |-> 500, body |-> [status |-> "error", description |-> description]]

\* request.args.get('offset', '0')
OffsetText(offsetArg) == IF offsetArg = None THEN <<"0">> ELSE offsetArg.s

\* the response of get_users for the query parameters offsetArg and countArg,
\* each None (absent) or Str(text)
get_users(db, offsetArg, countArg) ==
    LET offsetText == OffsetText(offsetArg) IN
    IF ~CanParseInt(offsetText) THEN server_error(IntError(offsetText))
    ELSE LET offset == IntOf(offsetText) IN
    IF offset_rejected(offset) THEN success_response(Payload(<<>>))
    ELSE IF countArg # None /\ ~CanParseInt(countArg.s)
         THEN server_error(IntError(countArg.s))
    ELSE LET count == IF countArg # None THEN Num(IntOf(countArg.s)) ELSE None IN
    IF count # None /\ count_rejected(count.n) THEN success_response(Payload(<<>>))
    ELSE IF offset >= Len(sorted_users(db)) THEN success_response(Payload(<<>>))
    ELSE success_response(Payload(Page(sorted_users(db), offset, count)))

List(offsetArg, countArg) ==
    /\ request' = [op |-> "list", offset |-> offsetArg, count |-> countArg]
    /\ response' = get_users(users_db, offsetArg, countArg)
    /\ UNCHANGED <<users_db, deletedAfterCreate>>
    /\ UNCHANGED threads

\* ---------------------------------------------------------------- POST /users

NoBody == [t |-> "null"]
Dict(d) == [t |-> "dict", d |-> d]

\* `not data`: None and the empty object are falsy
BodyFalsy(data) == data.t = "null" \/ DOMAIN data.d = {}

allowed_fields == {"name", "msisdn"}

\* the orders in which a set may be iterated
Orderings(S) ==
    {f \in [1..Cardinality(S) -> S] : \A i, j \in DOMAIN f : i # j => f[i] # f[j]}

\* ', '.join(fields)
RECURSIVE JoinComma(_)
JoinComma(fields) ==
    IF fields = <<>> THEN ""
    ELSE IF Len(fields) = 1 THEN fields[1]
    ELSE fields[1] \o ", " \o JoinComma(Tail(fields))

\* line 188
next_id(db) == Len(db) + 1

\* the body of the response to a successful create
created_body(new_user) ==
    [status |-> "OK",
     user |-> [id |-> new_user.id, name |-> new_user.name,
               msisdn |-> new_user.msisdn,
               message |-> "User created successfully"]]

\* create_user on the collection db: the collection and the response after it.
\* extra_order is the order in which the set extra_fields is iterated.
create_user(db, data, extra_order) ==
    IF BodyFalsy(data)
    THEN [db |-> db, response |-> error_response("Invalid JSON data")]
    ELSE IF DOMAIN data.d \ allowed_fields # {}
    THEN [db |-> db,
          response |-> error_response("Extra fields not allowed: "
                                      \o JoinComma(extra_order))]
    ELSE IF "msisdn" \notin DOMAIN data.d
    THEN [db |-> db, response |-> error_response("Missing required field: msisdn")]
    ELSE LET m == validate_msisdn(data.d.msisdn) IN
    IF ~m.ok THEN [db |-> db, response |-> error_response(m.value)]
    ELSE LET n == IF "name" \in DOMAIN data.d
                  THEN validate_name(data.d.name)
                  ELSE [ok |-> TRUE, value |-> None] IN
    IF ~n.ok THEN [db |-> db, response |-> error_response(n.value)]
    ELSE LET new_user == User(next_id(db), n.value, m.value) IN
         [db |-> Append(db, new_user),
          response |-> [code |-> 200, body |-> created_body(new_user)]]

\* the users of db that reset did not put there
Created(db) == {k \in 1..Len(db) : \A j \in 1..Len(INITIAL_USERS) : db[k] # INITIAL_USERS[j]}

Create(data) ==
    /\ Cardinality(Created(users_db)) < MaxCreated
    /\ \E extra_order \in Orderings(IF data.t = "dict"
                                    THEN DOMAIN data.d \ allowed_fields
                                    ELSE {}) :
          LET out == create_user(users_db, data, extra_order) IN
          /\ users_db' = out.db
          /\ request' = [op |-> "create", data |-> data]
          /\ response' = out.response
          /\ deletedAfterCreate' =
                IF out.response.body.status = "OK" THEN 0 ELSE deletedAfterCreate
          /\ UNCHANGED threads

\* ------------------------------------------------------------ GET /users/<id>

\* next((u for u in users_db if u['id'] == id), None): the position of the
\* first user with this id, 0 when there is none
FirstWithId(db, id) ==
    IF \E k \in 1..Len(db) : db[k].id = id
    THEN CHOOSE k \in 1..Len(db) :
            db[k].id = id /\ \A j \in 1..(k - 1) : db[j].id # id
    ELSE 0

get_user(db, id) ==
    IF FirstWithId(db, id) # 0
    THEN [code |-> 200, body |-> [status |-> "OK", user |-> db[FirstWithId(db, id)]]]
    ELSE error_response("User with id " \o ToString(id) \o " not found")

Get(id) ==
    /\ request' = [op |-> "get", id |-> id]
    /\ response' = get_user(users_db, id)
    /\ UNCHANGED <<users_db, deletedAfterCreate>>
    /\ UNCHANGED threads

\* --------------------------------------------------------- DELETE /users/<id>

\* a delete that removes the first user with the id only
WithoutFirstId(db, id) ==
    LET k == CHOOSE i \in 0..Len(db) :
                 /\ i # 0 => db[i].id = id
                 /\ \A j \in 1..Len(db) : db[j].id = id => (i # 0 /\ i <= j)
    IN  IF k = 0 THEN db ELSE SubSeq(db, 1, k - 1) \o SubSeq(db, k + 1, Len(db))

\* [u for u in users_db if u['id'] != id]
RECURSIVE WithoutId(_, _)
WithoutId(db, id) ==
    IF db = <<>> THEN <<>>
    ELSE IF Head(db).id # id THEN <<Head(db)>> \o WithoutId(Tail(db), id)
    ELSE WithoutId(Tail(db), id)

\* delete_user on the collection db: the collection and the response after it
delete_user(db, id) ==
    IF FirstWithId(db, id) = 0
    THEN [db |-> db,
          response |-> error_response("User with id " \o ToString(id) \o " not found")]
    ELSE [db |-> WithoutId(db, id),
          response |-> success_response(Payload(
              [message |-> "User with id " \o ToString(id)
                           \o " deleted successfully"]))]

\* the create, delete, get sequence of test_delete_user: the id of a user that
\* was created by one request and deleted by the next, until the collection
\* is added to again (0: none)
CreatedThenDeleted(id) ==
    IF /\ request.op = "create"
       /\ response.body.status = "OK"
       /\ response.body.user.id = id
    THEN id
    ELSE 0

Delete(id) ==
    LET out == delete_user(users_db, id) IN
    /\ users_db' = out.db
    /\ request' = [op |-> "delete", id |-> id]
    /\ response' = out.response
    /\ deletedAfterCreate' =
          IF out.response.body.status = "OK"
          THEN CreatedThenDeleted(id)
          ELSE deletedAfterCreate
    /\ UNCHANGED threads

\* ------------------------------------------------------------------- inputs

NewMsisdn == <<"7", "9", "9", "9", "8", "8", "8", "7", "7", "4", "4">>

\* the ids of the get and delete requests
IdInputs == {1, 3, 10, 11}

\* the offset and count query parameters
OffsetInputs ==
    {None, Str(<<"0">>), Str(<<"3">>), Str(<<"1", "0">>), Str(<<"2", "0">>),
     Str(<<"-", "1">>), Str(<<"a", "b", "c">>)}

CountInputs ==
    {None, Str(<<"0">>), Str(<<"1">>), Str(<<"4">>), Str(<<" ", "1", "2">>),
     Str(<<"-", "3">>), Str(<<"d", "e", "f">>)}

\* the JSON bodies of the create requests
BodyInputs ==
    {NoBody,
     Dict(<<>>),
     Dict([msisdn |-> Str(NewMsisdn)]),
     Dict([msisdn |-> Str(INITIAL_USERS[1].msisdn)]),
     Dict([msisdn |-> Str(<<" ">> \o NewMsisdn), name |-> Str(<<" ", "A", "l", " ">>)]),
     Dict([name |-> Str(<<"A", "l">>)]),
     Dict([msisdn |-> Str(NewMsisdn), age |-> Num(5)]),
     Dict([msisdn |-> Str(<<"7", "9", "9", "9">>)]),
     Dict([msisdn |-> Num(5)]),
     Dict([msisdn |-> Str(NewMsisdn), name |-> Num(5)])}

Next ==
    \/ Reset
    \/ \E offsetArg \in {None, Str(<<"3">>)}, countArg \in {None, Str(<<"0">>)} :
          List(offsetArg, countArg)
    \/ \E data \in BodyInputs : Create(data)
    \/ \E id \in IdInputs : Get(id)
    \/ \E id \in IdInputs : Delete(id)

Spec == Init /\ [][Next]_vars

\* ------------------------------------------------------- list requests

\* the bodies of the create requests between the list requests
ListBodyInputs ==
    {Dict([msisdn |-> Str(NewMsisdn)])}

ListNext ==
    \/ Reset
    \/ \E offsetArg \in OffsetInputs, countArg \in CountInputs :
          List(offsetArg, countArg)
    \/ \E data \in ListBodyInputs : Create(data)
    \/ \E id \in IdInputs : Delete(id)

SpecList == Init /\ [][ListNext]_vars

\* --------------------------------------------------- create requests by name

\* the lengths of the names, around MAX_NAME_LENGTH
NameLengths == {0, 1} \cup ((MAX_NAME_LENGTH - 1)..(MAX_NAME_LENGTH + 2))

\* names of these lengths, with and without surrounding whitespace
NameInputs ==
    {Str(Rep(" ", l) \o Rep("x", n) \o Rep("\t", r)) :
        l \in 0..1, n \in NameLengths, r \in 0..1}

NameBodyInputs ==
    {Dict([msisdn |-> Str(NewMsisdn), name |-> name]) : name \in NameInputs}

NameNext ==
    \/ Reset
    \/ \E data \in NameBodyInputs : Create(data)

SpecName == Init /\ [][NameNext]_vars

\* ------------------------------------------------- create requests by msisdn

LetterMsisdn == <<"7", "9", "1", "6", "1", "2", "3", "4", "0", "0", "a">>

\* msisdn values: digits and letters, of the right and of a wrong length,
\* with and without surrounding whitespace, and values that are no string
MsisdnInputs ==
    {Str(NewMsisdn),
     Str(<<" ">> \o NewMsisdn \o <<" ">>),
     Str(LetterMsisdn),
     Str(<<"\t">> \o LetterMsisdn),
     Str(INITIAL_USERS[1].msisdn),
     Str(Rep("x", MSISDN_LENGTH)),
     Str(<<"+", "7", "9", "9", "9", "8", "8", "8", "7", "7", "4">>),
     Str(<<"7", "9", "a">>),
     Str(<<"7", "9", "9", "9">>),
     Str(NewMsisdn \o <<"5">>),
     Str(<<>>),
     Num(5),
     None}

MsisdnBodyInputs == {Dict([msisdn |-> msisdn]) : msisdn \in MsisdnInputs}

MsisdnNext ==
    \/ Reset
    \/ \E data \in MsisdnBodyInputs : Create(data)

SpecMsisdn == Init /\ [][MsisdnNext]_vars

\* ------------------------------------------- reset interleaved with reads
\* Handlers run in threads; a step is what one thread does between two
\* accesses to the global users_db.

\* a reset that fills the list bound to the global users_db in place
partial_list(db, new) == new

\* the list the global users_db is bound to while the comprehension of line
\* 140 builds the list `new`: the assignment comes after the comprehension
bound_during_reset(db, new) == db

ResetBegin ==
    /\ resetter.pc = "idle"
    /\ resetter' = [pc |-> "copying", new |-> <<>>, before |-> users_db,
                    response |-> NoResponse]
    /\ users_db' = bound_during_reset(users_db, <<>>)
    /\ UNCHANGED <<request, response, deletedAfterCreate, reader>>

\* one user.copy() of the comprehension
ResetCopy ==
    /\ resetter.pc = "copying"
    /\ Len(resetter.new) < Len(INITIAL_USERS)
    /\ LET new == Append(resetter.new, INITIAL_USERS[Len(resetter.new) + 1]) IN
       /\ resetter' = [resetter EXCEPT !.new = new]
       /\ users_db' = bound_during_reset(users_db, new)
    /\ UNCHANGED <<request, response, deletedAfterCreate, reader>>

\* users_db = <the new list>, and the response
ResetStore ==
    /\ resetter.pc = "copying"
    /\ Len(resetter.new) = Len(INITIAL_USERS)
    /\ users_db' = resetter.new
    /\ resetter' = [resetter EXCEPT !.pc = "stored",
                                    !.response = success_response(None)]
    /\ deletedAfterCreate' = 0
    /\ UNCHANGED <<request, response, reader>>

\* the reset request is over
ResetEnd ==
    /\ resetter.pc = "stored"
    /\ resetter' = ResetterIdle
    /\ UNCHANGED <<users_db, request, response, deletedAfterCreate, reader>>

\* the complete collections at this moment: the collection, or the one before
\* and the one after the reset in progress
CompleteCollections ==
    CASE resetter.pc = "idle" -> {users_db}
      [] resetter.pc = "copying" -> {resetter.before, INITIAL_USERS}
      [] resetter.pc = "stored" -> {INITIAL_USERS}

\* the response of a read request computed on the list db
read_response(req, db) ==
    IF req.op = "list" THEN get_users(db, req.offset, req.count)
    ELSE get_user(db, req.id)

\* a list or get request loads the global users_db (lines 111 and 219)
ReaderLoad(req) ==
    /\ reader.pc = "idle"
    /\ request' = req
    /\ response' = NoResponse
    /\ reader' = [pc |-> "loaded", seen |-> users_db,
                  copied |-> IF resetter.pc = "copying" THEN Len(resetter.new)
                             ELSE -1,
                  allowed |-> CompleteCollections]
    /\ UNCHANGED <<users_db, deletedAfterCreate, resetter>>

\* the handler computes its response from the list it loaded
ReaderRespond ==
    /\ reader.pc = "loaded"
    /\ response' = read_response(request, reader.seen)
    /\ reader' = [reader EXCEPT !.pc = "done"]
    /\ UNCHANGED <<users_db, request, deletedAfterCreate, resetter>>

\* the read request is over
ReaderEnd ==
    /\ reader.pc = "done"
    /\ reader' = ReaderIdle
    /\ UNCHANGED <<users_db, request, response, deletedAfterCreate, resetter>>

\* the read requests
ReadInputs ==
    {[op |-> "list", offset |-> None, count |-> None],
     [op |-> "list", offset |-> Str(<<"3">>), count |-> Str(<<"4">>)],
     [op |-> "get", id |-> 3],
     [op |-> "get", id |-> 10]}

\* no request in progress
Quiet == resetter.pc = "idle" /\ reader.pc = "idle"

ConcurrentNext ==
    \/ ResetBegin
    \/ ResetCopy
    \/ ResetStore
    \/ ResetEnd
    \/ \E req \in ReadInputs : ReaderLoad(req)
    \/ ReaderRespond
    \/ ReaderEnd
    \/ \E data \in ListBodyInputs : Quiet /\ Create(data)
    \/ \E id \in {3, 10} : Quiet /\ Delete(id)

SpecConcurrent == Init /\ [][ConcurrentNext]_vars

\* ======================================================== claims C1 to C5

CreateSucceeded == request.op = "create" /\ response.body.status = "OK"

\* a create request whose body carries only a string msisdn and, possibly, a name
WellFormedCreate(req) ==
    /\ req.op = "create"
    /\ req.data.t = "dict"
    /\ DOMAIN req.data.d \subseteq allowed_fields
    /\ "msisdn" \in DOMAIN req.data.d
    /\ IsStr(req.data.d.msisdn)

MsisdnStored(db, m) == \E k \in 1..Len(db) : db[k].msisdn = m

MsisdnsUnique(db) ==
    \A i, j \in 1..Len(db) : i # j => db[i].msisdn # db[j].msisdn

\* C1: no two stored users ever share an msisdn, and a create whose trimmed
\* msisdn is that of a stored user fails with the conflict error 'User with
\* msisdn <msisdn> already exists' and leaves the collection unchanged.
C1_MsisdnUnique ==
    [][ /\ MsisdnsUnique(users_db')
        /\ ( /\ WellFormedCreate(request')
             /\ MsisdnStored(users_db, Strip(request'.data.d.msisdn.s)) )
           => /\ response'.body.status = "error"
              /\ response'.body.description =
                    "User with msisdn " \o Text(Strip(request'.data.d.msisdn.s))
                    \o " already exists"
              /\ users_db' = users_db ]_vars

RECURSIVE MaxId(_)
MaxId(db) == IF db = <<>> THEN 0 ELSE Max(Head(db).id, MaxId(Tail(db)))

\* C2: each successful create assigns an id strictly greater than the id of
\* every user in the collection at that moment, equal to max(existing ids)+1
\* (1 when the collection is empty).
C2_IdIsMaxPlusOne ==
    [][ (request'.op = "create" /\ response'.body.status = "OK")
        => /\ \A k \in 1..Len(users_db) : users_db[k].id < response'.body.user.id
           /\ response'.body.user.id = MaxId(users_db) + 1 ]_vars

\* C3: no two stored users have the same id.
C3_IdsUnique ==
    \A i, j \in 1..Len(users_db) : i # j => users_db[i].id # users_db[j].id

\* the record a response carries, whichever field of the envelope holds it
RecordOf(body) == IF "result" \in DOMAIN body THEN body.result ELSE body.user

\* C4: a get(i) that immediately follows a successful create returning id i
\* succeeds and returns the record just created (same id, name and msisdn).
C4_CreateThenGet ==
    [][ ( /\ CreateSucceeded
          /\ request'.op = "get"
          /\ request'.id = response.body.user.id )
        => /\ response'.code = 200
           /\ response'.body.status = "OK"
           /\ RecordOf(response'.body).id = response.body.user.id
           /\ RecordOf(response'.body).name = response.body.user.name
           /\ RecordOf(response'.body).msisdn = response.body.user.msisdn ]_vars

\* C5: after a successful create returning id i and a successful delete(i)
\* right after it, no user with id i remains until a create or a reset, and
\* get(i) yields the not-found error naming i.
C5_DeletedUserNotFound ==
    deletedAfterCreate # 0 =>
        /\ \A k \in 1..Len(users_db) : users_db[k].id # deletedAfterCreate
        /\ (request.op = "get" /\ request.id = deletedAfterCreate)
           => response = error_response("User with id "
                                        \o ToString(deletedAfterCreate)
                                        \o " not found")

\* get(10) after reset, delete(3), create (which is given the id 10 that the
\* seed user 10 holds too) and delete(10)
C5_Witness ==
    /\ deletedAfterCreate = 10
    /\ request.op = "get"
    /\ request.id = 10
    /\ Len(users_db) = 8

\* ======================================================== claims C6 to C9

\* the offset of a list request, when int() returns for it
OffsetParses == CanParseInt(OffsetText(request.offset))
OffsetValue == IntOf(OffsetText(request.offset))

\* the count of a list request that carries one, when int() returns for it
CountParses == request.count # None /\ CanParseInt(request.count.s)
CountValue == IntOf(request.count.s)

CountOf(u, seq) == Cardinality({k \in 1..Len(seq) : seq[k] = u})

\* S is db in ascending order of id
IsSortedById(S, db) ==
    /\ Len(S) = Len(db)
    /\ \A k \in 1..Len(db) : CountOf(db[k], S) = CountOf(db[k], db)
    /\ \A i, j \in 1..Len(S) : i < j => S[i].id <= S[j].id

EmptySuccess == [code |-> 200, body |-> [status |-> "OK", result |-> <<>>]]

\* C6: list with count = 0 returns exactly the element at position offset of
\* the id-sorted collection, as count = 1 does, for 0 <= offset < N, and the
\* empty sequence for offset >= N.
C6_CountZeroIsOne ==
    ( /\ request.op = "list"
      /\ OffsetParses /\ OffsetValue >= 0
      /\ CountParses /\ CountValue = 0 )
    => LET S == sorted_users(users_db) IN
       /\ IsSortedById(S, users_db)
       /\ response.code = 200
       /\ response.body.status = "OK"
       /\ response.body.result =
             IF OffsetValue < Len(S) THEN <<S[OffsetValue + 1]>> ELSE <<>>
       /\ response = get_users(users_db, request.offset, Str(<<"1">>))

\* C7: for offset >= 0 and count >= 1, list returns the elements at positions
\* [offset, offset+count) of the collection sorted by id ascending, clipped to
\* the available length: min(count, max(0, N - offset)) elements.
C7_PageIsSlice ==
    ( /\ request.op = "list"
      /\ OffsetParses /\ OffsetValue >= 0
      /\ CountParses /\ CountValue >= 1 )
    => LET S == sorted_users(users_db)
           r == response.body.result
       IN  /\ IsSortedById(S, users_db)
           /\ response.code = 200
           /\ response.body.status = "OK"
           /\ Len(r) = Min(CountValue, Max(0, Len(S) - OffsetValue))
           /\ \A k \in 1..Len(r) : r[k] = S[OffsetValue + k]

\* list(offset=3, count=4) of a collection that is not stored in id order
C7_Witness ==
    /\ request.op = "list"
    /\ request.offset = Str(<<"3">>)
    /\ request.count = Str(<<"4">>)
    /\ \E i, j \in 1..Len(users_db) : i < j /\ users_db[i].id > users_db[j].id
    /\ Len(response.body.result) = 4

\* C8: list with a negative offset (any count) and list with a negative count
\* (any integer offset) return the success envelope with an empty sequence.
C8_NegativeIsEmpty ==
    ( /\ request.op = "list"
      /\ OffsetParses
      /\ OffsetValue < 0 \/ (CountParses /\ CountValue < 0) )
    => response = EmptySuccess

\* list(offset=-1) without a count, of a collection that holds users
C8_Witness ==
    /\ request.op = "list"
    /\ request.offset = Str(<<"-", "1">>)
    /\ request.count = None
    /\ users_db # <<>>
    /\ response = EmptySuccess

\* C9: a list request whose offset or count cannot be parsed as an integer is
\* answered with the error envelope {status: "error", description} and HTTP
\* status 200.
C9_ParseFailureIsError200 ==
    ( /\ request.op = "list"
      /\ \/ ~OffsetParses
         \/ request.count # None /\ ~CountParses )
    => /\ response.code = 200
       /\ response.body.status = "error"
       /\ "description" \in DOMAIN response.body

\* ================================================================ claim C10

\* the name of a create request that carries a string name and a valid msisdn
NamedCreate ==
    /\ WellFormedCreate(request)
    /\ validate_msisdn(request.data.d.msisdn).ok
    /\ "name" \in DOMAIN request.data.d
    /\ IsStr(request.data.d.name)

TrimmedName == Strip(request.data.d.name.s)

\* C10: a string name is rejected with 'Name must not exceed 30 characters'
\* if and only if its length after trimming is greater than 30; a name of
\* trimmed length 1..30 is accepted and stored.
C10_NameLimit ==
    NamedCreate =>
       /\ (response = error_response("Name must not exceed 30 characters"))
             <=> (Len(TrimmedName) > 30)
       /\ (1 <= Len(TrimmedName) /\ Len(TrimmedName) <= 30)
             => /\ response.body.status = "OK"
                /\ users_db # <<>>
                /\ users_db[Len(users_db)].name = Str(TrimmedName)

\* ================================================================ claim C11

AllDigits(m) == \A k \in 1..Len(m) : IsDigit(m[k])

\* a create request whose body carries only a non-empty string msisdn
MsisdnCreate ==
    /\ WellFormedCreate(request)
    /\ DOMAIN request.data.d = {"msisdn"}
    /\ request.data.d.msisdn.s # <<>>

TrimmedMsisdn == Strip(request.data.d.msisdn.s)

\* C11: a string msisdn is accepted only if, trimmed, it consists solely of
\* decimal digits and has exactly 11 characters; one with a non-digit
\* character is rejected with 'MSISDN must contain only digits', whatever its
\* length; so no stored user has an msisdn with a non-digit.
C11_MsisdnDigitsOnly ==
    /\ \A k \in 1..Len(users_db) : AllDigits(users_db[k].msisdn)
    /\ MsisdnCreate =>
          /\ response.body.status = "OK"
                => AllDigits(TrimmedMsisdn) /\ Len(TrimmedMsisdn) = 11
          /\ ~AllDigits(TrimmedMsisdn)
                => response = error_response("MSISDN must contain only digits")

\* ================================================================ claim C12

\* C12: every successful response is {status: "OK"} with the payload under
\* `result` and no other field; reset omits `result`; a successful create and
\* a successful get(id) carry the user record under `result`.
C12_SuccessEnvelope ==
    response.body.status = "OK" =>
        /\ response.code = 200
        /\ DOMAIN response.body \subseteq {"status", "result"}
        /\ request.op = "reset" => DOMAIN response.body = {"status"}
        /\ request.op \in {"create", "get"} =>
              /\ "result" \in DOMAIN response.body
              /\ \E k \in 1..Len(users_db) :
                    /\ response.body.result.id = users_db[k].id
                    /\ response.body.result.name = users_db[k].name
                    /\ response.body.result.msisdn = users_db[k].msisdn

\* ================================================================ claim C13

\* C13: reset always succeeds and, from any reachable state, replaces the
\* whole collection with exactly the 10-user seed (ids 1-10 with their names
\* and msisdns, in order), so a second reset yields the same contents.
C13_ResetRestoresSeed ==
    request.op = "reset" =>
        /\ response = [code |-> 200, body |-> [status |-> "OK"]]
        /\ users_db = INITIAL_USERS
        /\ Len(users_db) = 10
        /\ \A k \in 1..10 : users_db[k].id = k

\* a reset has been served
C13_Witness ==
    /\ request.op = "reset"
    /\ response.body.status = "OK"
    /\ users_db = INITIAL_USERS

\* ================================================================ claim C15

\* db without its element at position k
WithoutPosition(db, k) == SubSeq(db, 1, k - 1) \o SubSeq(db, k + 1, Len(db))

\* C15: a delete of an id that is present succeeds and removes exactly one
\* record, leaving the other users and their order unchanged; a delete of an
\* id that is absent returns the not-found error naming the id and leaves the
\* collection unchanged.
C15_DeleteRemovesOne ==
    [][ request'.op = "delete" =>
           IF \E k \in 1..Len(users_db) : users_db[k].id = request'.id
           THEN /\ response'.body.status = "OK"
                /\ Len(users_db') = Len(users_db) - 1
                /\ \E k \in 1..Len(users_db) :
                      /\ users_db[k].id = request'.id
                      /\ users_db' = WithoutPosition(users_db, k)
           ELSE /\ response' = error_response("User with id "
                                              \o ToString(request'.id)
                                              \o " not found")
                /\ users_db' = users_db ]_vars

\* ================================================================ claim C14

\* C14: a list or get(id) request that runs interleaved with a reset observes
\* either the complete collection as it was before the reset or the complete
\* seed collection, never a partially replaced one, and answers from it.
C14_ReadersSeeWholeCollection ==
    reader.pc # "idle" =>
        /\ reader.seen \in reader.allowed
        /\ reader.pc = "done" =>
              \E db \in reader.allowed : response = read_response(request, db)

\* a list request that loaded the collection when the reset had copied 5 of
\* the 10 seed users, and listed every user of the collection before the reset
C14_Witness ==
    /\ reader.pc = "done"
    /\ resetter.pc = "copying"
    /\ reader.copied = 5
    /\ request = [op |-> "list", offset |-> None, count |-> None]
    /\ resetter.before # INITIAL_USERS
    /\ Len(resetter.before) = 9
    /\ response.body.result = sorted_users(resetter.before)
====
